---- MODULE Spec2Model ----
(***************************************************************************)
(* A model of dropbox-toolbox's upload session (src/src/upload.rs): the    *)
(* CompletionTracker, the SessionInner helpers, UploadSession::upload with *)
(* its chunk workers and retry loop, the closing append, commit and        *)
(* resume, together with the remote upload session the calls act on; and   *)
(* of the ContentHash of src/src/content_hash.rs.                          *)
(*                                                                         *)
(* Offsets and lengths are byte counts, as in the source.  The content of  *)
(* a chunk is identified by the position of its first byte in the          *)
(* original source (field src) and its length.  Durations are in           *)
(* milliseconds.                                                           *)
(***************************************************************************)
EXTENDS Integers, Sequences, FiniteSets, TLC

----------------------------------------------------------------------------
(* Program constants *)

\* lib.rs:21  pub const BLOCK_SIZE: usize = 4 * 1024 * 1024;
BLOCK_SIZE == 4 * 1024 * 1024

\* upload.rs:229  commit gives up when errors == 3
COMMIT_ATTEMPTS == 3

\* upload.rs:234  sleep(Duration::from_secs(1)), in milliseconds
COMMIT_DELAY == 1000
\* list.rs:116  `if errors == 3` in list_folder_internal
LIST_ATTEMPTS == 3

----------------------------------------------------------------------------
(* Bounds of the model *)

\* the source holds at most MaxChunks full chunks (plus a shorter tail)
MaxChunks == 2
\* at most MaxRateLimited rate-limited responses are given in one behaviour
MaxRateLimited == 1
\* an upload is resumed at most MaxResumes times
MaxResumes == 1
\* the tracker specification delivers blocks covering [0, N) for N <= MaxN
MaxN == 5
\* the hasher specification makes at most MaxUpdates calls of update()
MaxUpdates == 3
\* commit() is called at most MaxCommits times on one session object
MaxCommits == 2
\* one call of upload_block_with_retry is given at most MaxErrors errors
\* other than rate limits (more than any retry_count the model draws, and
\* far below the 2^32 at which the u32 `errors` would overflow)
MaxErrors == 4
\* the listing specification: the remote folder has at most MaxEntries entries
MaxEntries == 3
\* the stream specification: read() gives data at most MaxReads times and
\* an Interrupted error at most MaxInterrupts times
MaxReads == 3
MaxInterrupts == 2

\* values of UploadOpts the model draws from
Parallelisms == {1, 2}
BlocksPerRequest == {1, 2}
RetryCounts == {1, 2}
\* (initial_backoff_time, max_backoff_time) in milliseconds; the first pair
\* is UploadOpts::default()
BackoffTimes == {<<500, 2000>>}
SessionIds == {"sid-a"}
\* lengths of the slices given to ContentHash::update: empty, within a
\* block, up to a block boundary, a whole block, across block boundaries
UpdateLens ==
    {0, 1, BLOCK_SIZE \div 2, BLOCK_SIZE - 1, BLOCK_SIZE, BLOCK_SIZE + 1,
     2 * BLOCK_SIZE, 2 * BLOCK_SIZE + BLOCK_SIZE \div 2}
\* numbers of entries in one page of a folder listing
PageSizes == {0, 1, 2}
\* lengths of the streams given to ContentHash::read_stream
StreamLens == {0, 1, BLOCK_SIZE, BLOCK_SIZE + 1, 2 * BLOCK_SIZE + BLOCK_SIZE \div 2}
\* io::ErrorKind of the errors a stream's read() fails with
IoErrorKinds == {"Interrupted", "ConnectionReset", "UnexpectedEof"}
\* values of retry_count and of the backoff times of the retry specification:
\* the default times, times whose doubling steps over the maximum, and an
\* initial time above the maximum
RetryCountsAll == {1, 2, 3}
BackoffTimesAll == {<<500, 2000>>, <<600, 1000>>, <<3000, 2000>>}
\* retry_after_seconds of the rate-limited responses of the remote
RetryAfterSeconds == {0, 2}
\* the errors other than RateLimited a remote call can return, by variant of
\* dropbox_sdk::Error: a failure of the HTTP client (transient), and an
\* error of the API (permanent; for an append an UploadSessionAppendError:
\* incorrect offset, closed or unknown session, content hash mismatch, ...)
Errors == {"HttpClient", "Api"}
\* the failures of the remote: the errors and the retry_after_seconds it can
\* answer an append with, and the errors it can answer a finish call with.
\* The upload specification has multi-chunk sources and few kinds of
\* failure, the retry specification one-chunk sources and every kind.
FewFaults ==
    [append_errors |-> {"HttpClient"}, retry_after_seconds |-> {2},
     finish_errors |-> {"HttpClient"}]
AllFaults ==
    [append_errors |-> Errors, retry_after_seconds |-> RetryAfterSeconds,
     finish_errors |-> Errors \cup {"RateLimited"}]

----------------------------------------------------------------------------
VARIABLES
    opts,               \* UploadOpts given to upload()
    faults,             \* the failures the remote can answer with in this behaviour
    orig_len,           \* length of the whole original source
    seek,               \* position of the original source the stream given to upload() starts at
    source_len,         \* number of bytes the stream given to upload() yields
    session_id,         \* SessionInner.session_id
    start_offset,       \* SessionInner.start_offset
    bytes_transferred,  \* SessionInner.bytes_transferred (AtomicU64)
    completion,         \* SessionInner.completion (Mutex<CompletionTracker>)
    created,            \* history: the token (or fresh id, offset 0) the session was created from
    resumes,            \* history: how many times the upload has been resumed
    upload_pc,          \* position of upload(): "idle", "dispatch", "closing", "ok", "err"
    upload_result,      \* what upload() returned: Ok and its value, or the arm of the
                        \* match at upload.rs:180 taken and the error returned
    closed,             \* upload()'s local AtomicBool `closed`
    read_pos,           \* dispatcher: offset in the stream of the next chunk to read
    proc_error,         \* dispatcher: the error of the first worker that returned Err, or "none"
    read_failed,        \* dispatcher: has reading the source failed
    workers,            \* calls of upload_block_with_retry (chunk workers, closing append):
                        \* those in progress, and the chunk workers that returned Err while
                        \* the dispatcher has not returned
    remote,             \* the remote session: the appends it has acknowledged
    issued,             \* history: the append calls the current UploadSession object has made
    rate_limited,       \* history: number of rate-limited responses given
    commit_pc,          \* position of commit(): "idle", "call", "ok", "err"
    finish,             \* the UploadSessionFinishArg commit() built, and its loop state
    pending,            \* tracker specification: blocks not yet delivered to complete_block
    delivered,          \* tracker specification: the blocks delivered, in order of delivery
    hasher,             \* hasher specification: a ContentHash (ctx, block_ctx, partial)
    hash_input,         \* hasher specification: history, the lengths of the slices given to update()
    digest,             \* hasher specification: << >>, or << d >> when finish() has returned d
    stream,             \* stream specification: the stream given to read_stream (its length
                        \* and position), the Interrupted errors it gave, what read_stream returned
    listing             \* listing specification: the remote folder, the call of
                        \* list_folder_internal in progress, the DirectoryIterator, what
                        \* list_directory and the last next() returned

vars == << opts, faults, orig_len, seek, source_len, session_id, start_offset,
           bytes_transferred, completion, created, resumes, upload_pc,
           upload_result, closed, read_pos, proc_error, read_failed, workers,
           remote, issued, rate_limited, commit_pc, finish, pending, delivered,
           hasher, hash_input, digest, stream, listing >>

session_vars == << session_id, start_offset, bytes_transferred, completion >>
source_vars == << opts, faults, orig_len, seek, source_len >>
dispatch_vars == << closed, read_pos, proc_error, read_failed >>
commit_vars == << commit_pc, finish >>
tracker_vars == << pending, delivered >>
hash_vars == << hasher, hash_input, digest, stream >>
list_vars == << listing >>

----------------------------------------------------------------------------
(* CompletionTracker, upload.rs:359-389 *)

\* HashMap::insert / HashMap::remove on a map held as a function
MapInsert(m, k, v) == [x \in DOMAIN m \cup {k} |-> IF x = k THEN v ELSE m[x]]
MapRemove(m, k) == [x \in DOMAIN m \ {k} |-> m[x]]
EmptyMap == [x \in {} |-> 0]

\* #[derive(Default)]: complete_up_to 0, no buffered blocks
TrackerDefault == [complete_up_to |-> 0, uploaded_blocks |-> EmptyMap]

\* CompletionTracker::resume_from
resume_from(offset) == [complete_up_to |-> offset, uploaded_blocks |-> EmptyMap]

\* mutant: the loop never runs (buffered successors are not looked for)
AdvanceNever(t) == t

\* mutant: `if let` for `while let`: one buffered successor at most is taken
AdvanceOnce(t) ==
    IF t.complete_up_to \in DOMAIN t.uploaded_blocks
    THEN [complete_up_to |-> t.complete_up_to + t.uploaded_blocks[t.complete_up_to],
          uploaded_blocks |-> MapRemove(t.uploaded_blocks, t.complete_up_to)]
    ELSE t

\* the `while let Some(len) = self.uploaded_blocks.remove(&self.complete_up_to)` loop
RECURSIVE AdvanceFurther(_)
AdvanceFurther(t) ==
    IF t.complete_up_to \in DOMAIN t.uploaded_blocks
    THEN AdvanceFurther(
            [complete_up_to |-> t.complete_up_to + t.uploaded_blocks[t.complete_up_to],
             uploaded_blocks |-> MapRemove(t.uploaded_blocks, t.complete_up_to)])
    ELSE t

\* mutant: `=` for `+=` when the cursor advances
complete_block_assign(t, block_offset, block_len) ==
    IF block_offset = t.complete_up_to
    THEN AdvanceFurther([t EXCEPT !.complete_up_to = block_len])
    ELSE [t EXCEPT !.uploaded_blocks = MapInsert(t.uploaded_blocks, block_offset, block_len)]

\* mutant: the cursor is moved to the end of whichever block completes, gap or not
complete_block_any(t, block_offset, block_len) ==
    AdvanceFurther([t EXCEPT !.complete_up_to = block_offset + block_len])

\* CompletionTracker::complete_block
complete_block(t, block_offset, block_len) ==
    IF block_offset = t.complete_up_to
    THEN AdvanceFurther([t EXCEPT !.complete_up_to = t.complete_up_to + block_len])
    ELSE [t EXCEPT !.uploaded_blocks = MapInsert(t.uploaded_blocks, block_offset, block_len)]

----------------------------------------------------------------------------
(* ContentHash, content_hash.rs:24-105

   Bytes are identified by their position in the input: a slice is the
   positions [from, from + len), and a byte string is the sequence of the
   slices it is made of, adjoining slices joined and empty ones left out.
   SHA-256 is a digest that keeps the string it was computed from, so that
   two digests are equal exactly when the strings hashed are. *)

Slice(from, len) == [from |-> from, len |-> len]

\* the string s followed by the slice b
Concat(s, b) ==
    IF b.len = 0 THEN s
    ELSE IF s # << >> /\ s[Len(s)].from + s[Len(s)].len = b.from
         THEN [s EXCEPT ![Len(s)] = Slice(s[Len(s)].from, s[Len(s)].len + b.len)]
         ELSE Append(s, b)

\* ring::digest::Context: new(&SHA256), update(data), finish()
Sha256New == << >>
Sha256Update(c, b) == Concat(c, b)
Sha256Finish(c) == [sha256 |-> c]

\* slice::split_at
SplitAt(b, n) == << Slice(b.from, n), Slice(b.from + n, b.len - n) >>

\* ContentHash::new; ctx holds the block hashes given to the outer context
ContentHash_new == [ctx |-> << >>, block_ctx |-> Sha256New, partial |-> 0]

\* mutant: the finished block's length is not cleared
finish_block_keeps_partial(h) ==
    [ctx |-> Append(h.ctx, Sha256Finish(h.block_ctx)),
     block_ctx |-> Sha256New, partial |-> h.partial]

\* ContentHash::finish_block
finish_block(h) ==
    [ctx |-> Append(h.ctx, Sha256Finish(h.block_ctx)),
     block_ctx |-> Sha256New, partial |-> 0]

\* content_hash.rs:60-67  for block in bytes.chunks(BLOCK_SIZE)
RECURSIVE UpdateChunks(_, _)
UpdateChunks(h, bytes) ==
    IF bytes.len = 0 THEN h
    ELSE LET n == IF bytes.len < BLOCK_SIZE THEN bytes.len ELSE BLOCK_SIZE
             block == SplitAt(bytes, n)[1]
             rest == SplitAt(bytes, n)[2]
             h1 == [h EXCEPT !.block_ctx = Sha256Update(h.block_ctx, block)]
         IN UpdateChunks(IF block.len < BLOCK_SIZE
                         THEN [h1 EXCEPT !.partial = block.len]
                         ELSE finish_block(h1),
                         rest)

\* mutant: the slice is not split at the block boundary when a block is
\* partly filled
ContentHash_update_unsplit(h, bytes) ==
    IF h.partial # 0
    THEN LET h1 == [h EXCEPT !.block_ctx = Sha256Update(h.block_ctx, bytes),
                             !.partial = h.partial + bytes.len]
         IN IF h1.partial >= BLOCK_SIZE THEN finish_block(h1) ELSE h1
    ELSE UpdateChunks(h, bytes)

\* the panic of assert!(rem.is_empty()): no hasher is left (partial -1
\* marks it)
AssertFailed == [ctx |-> << >>, block_ctx |-> Sha256New, partial |-> -1]

\* mutant: the split leaves one byte of the block for the remainder
FirstAndRemShort(h, bytes) ==
    LET partial_needed == BLOCK_SIZE - h.partial - 1 IN
    IF partial_needed < bytes.len
    THEN SplitAt(bytes, partial_needed)
    ELSE << bytes, Slice(bytes.from + bytes.len, 0) >>

\* content_hash.rs:43-48  (first, rem): the part of bytes that fits the
\* block in progress, and what remains
FirstAndRem(h, bytes) ==
    LET partial_needed == BLOCK_SIZE - h.partial IN
    IF partial_needed < bytes.len
    THEN SplitAt(bytes, partial_needed)
    ELSE << bytes, Slice(bytes.from + bytes.len, 0) >>

\* ContentHash::update
ContentHash_update(h, bytes) ==
    IF h.partial # 0
    THEN LET first == FirstAndRem(h, bytes)[1]
             rem == FirstAndRem(h, bytes)[2]
             h1 == [h EXCEPT !.block_ctx = Sha256Update(h.block_ctx, first),
                             !.partial = h.partial + first.len]
         IN IF h1.partial = BLOCK_SIZE
            THEN UpdateChunks(finish_block(h1), rem)
            ELSE IF rem.len = 0 THEN h1 ELSE AssertFailed
    ELSE UpdateChunks(h, bytes)

\* io::Result<usize> of stream.read(&mut buf): Ok(n) with the n bytes read
\* into buf[0..n], or Err with the error's kind
ReadOk(bytes) == [kind |-> "Ok", n |-> bytes.len, bytes |-> bytes]
ReadErr(e) == [kind |-> e, n |-> 0, bytes |-> Slice(0, 0)]

\* mutant: no arm for Interrupted: every error is returned
read_stream_match_no_retry(h, res) ==
    IF res.kind = "Ok" /\ res.n = 0 THEN [hasher |-> h, returned |-> "Ok"]
    ELSE IF res.kind = "Ok"
         THEN [hasher |-> ContentHash_update(h, res.bytes), returned |-> "none"]
         ELSE [hasher |-> h, returned |-> res.kind]

\* content_hash.rs:74-80  one turn of read_stream's loop on the result res
\* of stream.read: the hasher afterwards and what read_stream returns
\* ("none": it loops)
read_stream_match(h, res) ==
    IF res.kind = "Ok" /\ res.n = 0 THEN [hasher |-> h, returned |-> "Ok"]
    ELSE IF res.kind = "Ok"
         THEN [hasher |-> ContentHash_update(h, res.bytes), returned |-> "none"]
         ELSE IF res.kind = "Interrupted"
              THEN [hasher |-> h, returned |-> "none"]
              ELSE [hasher |-> h, returned |-> res.kind]

\* no stream is being read
NoStream == [len |-> 0, pos |-> 0, interrupts |-> 0, returned |-> "none"]

\* mutant: the block in progress is finished even when it is empty
ContentHash_finish_always(h) == Sha256Finish(finish_block(h).ctx)

\* ContentHash::finish
ContentHash_finish(h) ==
    Sha256Finish((IF h.partial # 0 THEN finish_block(h) ELSE h).ctx)

\* a hasher not yet given any input; it stays so in the specifications that
\* use no hasher
NoHasher ==
    /\ hasher = ContentHash_new /\ hash_input = << >> /\ digest = << >>
    /\ stream = NoStream

----------------------------------------------------------------------------
(* SessionInner, upload.rs:316-349 *)

\* SessionInner::append_arg: the cursor of an append (session id, offset)
append_arg(block_offset) ==
    [session_id |-> session_id, offset |-> start_offset + block_offset]

\* SessionInner::commit_arg: the cursor of the finish call
commit_arg == [session_id |-> session_id, offset |-> bytes_transferred]

\* mutant: store for fetch_add: the counter is set to the last block's length
fetch_add_store(block_bytes) == block_bytes

\* upload.rs:299  bytes_transferred.fetch_add(block_bytes, SeqCst): the value
\* the counter holds afterwards (one atomic read-modify-write)
fetch_add(block_bytes) == bytes_transferred + block_bytes

\* mutant: the block is reported at its offset in the stream, start_offset
\* not added
mark_block_uploaded_in_stream(block_offset, block_len) ==
    complete_block(completion, block_offset, block_len)

\* SessionInner::mark_block_uploaded
mark_block_uploaded(block_offset, block_len) ==
    complete_block(completion, start_offset + block_offset, block_len)

\* SessionInner::complete_up_to
complete_up_to == completion.complete_up_to

\* mutant: the token carries the offset the session started at
get_resume_start == [start_offset |-> start_offset, session_id |-> session_id]

\* UploadSession::get_resume
get_resume == [start_offset |-> complete_up_to, session_id |-> session_id]

----------------------------------------------------------------------------
(* UploadSession::new / UploadSession::resume, upload.rs:93-124 *)

\* the SessionInner built by UploadSession::new, given the id the remote returned
new(id) ==
    [session_id |-> id, start_offset |-> 0, bytes_transferred |-> 0,
     completion |-> TrackerDefault]

\* mutant: the resumed session gets a default tracker
resume_default(token) ==
    [session_id |-> token.session_id, start_offset |-> token.start_offset,
     bytes_transferred |-> 0, completion |-> TrackerDefault]

\* the SessionInner built by UploadSession::resume(client, resume); no remote call
resume(token) ==
    [session_id |-> token.session_id, start_offset |-> token.start_offset,
     bytes_transferred |-> 0, completion |-> resume_from(token.start_offset)]

----------------------------------------------------------------------------
(* The remote session *)

\* what one upload_session_append_v2 call carries: the cursor, the close flag
\* and the data (len bytes of the source starting at src; the content hash
\* sent with it is a function of the data)
Call(w) ==
    [session_id |-> w.arg.session_id, offset |-> w.arg.offset,
     close |-> w.arg.close, len |-> w.len, src |-> w.src]

\* the remote accepts the appended data and acknowledges
Acknowledged(r, c) == [r EXCEPT !.acked = r.acked \cup {c}]

RemoteEmpty == [acked |-> {}]

\* the history of the calls of one UploadSession object: the distinct calls
\* made, how many calls were made in all, and the calls acknowledged
NoCalls == [calls |-> {}, n_calls |-> 0, acked |-> {}]
Received(h, c) == [h EXCEPT !.calls = h.calls \cup {c}, !.n_calls = h.n_calls + 1]
ReceivedOk(h, c) == [Received(h, c) EXCEPT !.acked = h.acked \cup {c}]

----------------------------------------------------------------------------
(* UploadSession::upload, upload.rs:138-208 *)

\* upload.rs:148  the chunk size handed to the dispatcher
ChunkSize == BLOCK_SIZE * opts.blocks_per_request

Min(a, b) == IF a < b THEN a ELSE b

\* mutant: the close flag compares the chunk with one block, not with
\* blocks_per_request blocks
ChunkWorkerOneBlock(block_offset, len) ==
    [task |-> "chunk", block_offset |-> block_offset, len |-> len,
     src |-> seek + block_offset,
     arg |-> [session_id |-> append_arg(block_offset).session_id,
              offset |-> append_arg(block_offset).offset,
              close |-> (len # BLOCK_SIZE)],
     pc |-> "call", calls |-> 0, errors |-> 0,
     backoff |-> opts.initial_backoff_time,
     sleeps |-> << >>, failures |-> << >>, rate_limits |-> << >>]

\* upload.rs:151-170  the chunk worker closure up to its call of
\* upload_block_with_retry: the append argument, the close flag of a short
\* chunk, and the initial state of the retry loop (upload.rs:259-261)
ChunkWorker(block_offset, len) ==
    [task |-> "chunk", block_offset |-> block_offset, len |-> len,
     src |-> seek + block_offset,
     arg |-> [session_id |-> append_arg(block_offset).session_id,
              offset |-> append_arg(block_offset).offset,
              close |-> (len # ChunkSize)],
     pc |-> "call", calls |-> 0, errors |-> 0,
     backoff |-> opts.initial_backoff_time,
     sleeps |-> << >>, failures |-> << >>, rate_limits |-> << >>]

\* upload.rs:192-200  the empty closing append issued by upload() itself
ClosingAppend(final_len) ==
    [task |-> "closing", block_offset |-> final_len, len |-> 0, src |-> 0,
     arg |-> [session_id |-> append_arg(final_len).session_id,
              offset |-> append_arg(final_len).offset,
              close |-> TRUE],
     pc |-> "call", calls |-> 0, errors |-> 0,
     backoff |-> opts.initial_backoff_time,
     sleeps |-> << >>, failures |-> << >>, rate_limits |-> << >>]

\* upload.rs:276, 287  thread::sleep as an entry of the log of sleeps of one
\* call of upload_block_with_retry: milliseconds; for a backoff the entry
\* holds the argument of jitter()
Sleep(kind, ms) == [kind |-> kind, ms |-> ms]

\* upload.rs:263  one more call of upload_session_append_v2 was made
Called(w) == [w EXCEPT !.calls = w.calls + 1]

\* mutant: a rate-limited response is handled by the Err(e) arm
RateLimitedAsError(w, retry_after_seconds) ==
    [w EXCEPT !.rate_limits = Append(w.rate_limits, retry_after_seconds),
              !.errors = w.errors + 1,
              !.pc = IF w.errors + 1 = opts.retry_count THEN "failed" ELSE "call",
              !.sleeps = Append(w.sleeps, Sleep("backoff", w.backoff)),
              !.backoff = IF w.backoff < opts.max_backoff_time
                          THEN w.backoff * 2 ELSE w.backoff]

\* upload.rs:267-278  the Err(Error::RateLimited) arm of the retry loop:
\* sleep retry_after_seconds when positive, then loop (rate_limits keeps
\* the retry_after_seconds received)
RateLimited(w, retry_after_seconds) ==
    IF retry_after_seconds > 0
    THEN [w EXCEPT !.rate_limits = Append(w.rate_limits, retry_after_seconds),
                   !.sleeps = Append(w.sleeps, Sleep("rate_limited", retry_after_seconds * 1000))]
    ELSE [w EXCEPT !.rate_limits = Append(w.rate_limits, retry_after_seconds)]

\* mutant: the loop gives up at the first error
AppendErrorNoRetry(w, e) ==
    [w EXCEPT !.errors = w.errors + 1, !.failures = Append(w.failures, e),
              !.pc = "failed"]

\* upload.rs:279-291  the Err(e) arm of the retry loop: the state of the loop
\* after one more error e (failures keeps the errors seen); pc "failed" is
\* `return Err(e)`, otherwise the loop sleeps jitter(backoff) and then
\* doubles backoff while it is below the maximum
AppendError(w, e) ==
    LET errors == w.errors + 1 IN
    IF errors = opts.retry_count
    THEN [w EXCEPT !.errors = errors, !.failures = Append(w.failures, e),
                   !.pc = "failed"]
    ELSE [w EXCEPT !.errors = errors, !.failures = Append(w.failures, e),
                   !.sleeps = Append(w.sleeps, Sleep("backoff", w.backoff)),
                   !.backoff = IF w.backoff < opts.max_backoff_time
                               THEN w.backoff * 2 ELSE w.backoff]

\* the workers that have not returned
Running == {w \in workers : w.pc # "failed"}

\* upload.rs:138-140  upload() is entered
StartUpload ==
    /\ upload_pc = "idle"
    /\ upload_pc' = "dispatch"
    /\ closed' = FALSE
    /\ read_pos' = 0
    /\ UNCHANGED << source_vars, session_vars, created, resumes, upload_result,
                    proc_error, read_failed, workers, remote, issued, rate_limited,
                    commit_vars, tracker_vars, hash_vars, list_vars >>

(* The dispatcher is parallel_reader::read_stream_and_process_chunks_in_parallel
   (called at upload.rs:146), a crate outside this repository.  It is modelled
   by its contract (the Chunk Dispatcher of the design): the stream is read
   in order in chunks of ChunkSize bytes, the last one possibly shorter; at
   most `parallelism` chunks are with workers at a time; after a worker's
   error or a read error no further chunk is handed out; the call returns
   once the workers in flight have returned. *)

\* The dispatcher reads the next chunk of the stream and hands it to a free
\* worker, which runs the closure of upload.rs:151-175.
Dispatch ==
    /\ upload_pc = "dispatch"
    /\ proc_error = "none" /\ ~read_failed
    /\ Cardinality(Running) < opts.parallelism
    /\ read_pos < source_len
    /\ LET len == Min(ChunkSize, source_len - read_pos)
           w == ChunkWorker(read_pos, len)
       IN /\ workers' = workers \cup {w}
          /\ closed' = (closed \/ w.arg.close)
          /\ read_pos' = read_pos + len
    /\ UNCHANGED << source_vars, session_vars, created, resumes, upload_pc,
                    upload_result, proc_error, read_failed, remote, issued,
                    rate_limited, commit_vars, tracker_vars, hash_vars, list_vars >>

\* Reading the source fails: the dispatcher reads no further.
ReadError ==
    /\ upload_pc = "dispatch"
    /\ proc_error = "none" /\ ~read_failed
    /\ read_failed' = TRUE
    /\ UNCHANGED << source_vars, session_vars, created, resumes, upload_pc,
                    upload_result, closed, read_pos, proc_error, workers,
                    remote, issued, rate_limited, commit_vars, tracker_vars, hash_vars, list_vars >>

\* upload.rs:263-266 and 295-312  the remote acknowledges the append: the
\* loop breaks, the byte counter is added to (fetch_add) and
\* upload_block_with_retry returns Ok(()); for the closing append upload()
\* then returns Ok(final_len) (upload.rs:207)
AppendOk(w) ==
    /\ w \in workers /\ w.pc = "call"
    /\ remote' = Acknowledged(remote, Call(w))
    /\ issued' = ReceivedOk(issued, Call(w))
    /\ bytes_transferred' = fetch_add(w.len)
    /\ IF w.task = "chunk"
       THEN /\ workers' = (workers \ {w}) \cup {[Called(w) EXCEPT !.pc = "mark"]}
            /\ UNCHANGED << upload_pc, upload_result >>
       ELSE /\ workers' = workers \ {w}
            /\ upload_pc' = "ok"
            /\ upload_result' = [kind |-> "Ok", value |-> w.block_offset, error |-> "none"]
    /\ UNCHANGED << source_vars, session_id, start_offset, completion, created,
                    resumes, dispatch_vars, rate_limited, commit_vars, tracker_vars, hash_vars, list_vars >>

\* upload.rs:267-278  a rate-limited response: sleep retry_after_seconds and
\* call again; neither errors nor backoff change
AppendRateLimited(w) ==
    /\ w \in workers /\ w.pc = "call"
    /\ rate_limited < MaxRateLimited
    /\ rate_limited' = rate_limited + 1
    /\ issued' = Received(issued, Call(w))
    /\ \E retry_after_seconds \in faults.retry_after_seconds :
          workers' = (workers \ {w}) \cup {RateLimited(Called(w), retry_after_seconds)}
    /\ UNCHANGED << source_vars, session_vars, created, resumes, upload_pc,
                    upload_result, dispatch_vars, remote, commit_vars,
                    tracker_vars, hash_vars, list_vars >>

\* upload.rs:279-291  any other error e, then what the caller of
\* upload_block_with_retry does with a returned Err: the chunk worker returns
\* it to the dispatcher (upload.rs:171-174); for the closing append upload()
\* logs it and returns Ok(final_len) (upload.rs:193-207)
AppendErr(w) ==
    /\ w \in workers /\ w.pc = "call"
    /\ w.errors < MaxErrors
    /\ issued' = Received(issued, Call(w))
    /\ \E e \in faults.append_errors :
       LET w2 == AppendError(Called(w), e) IN
       IF w2.pc # "failed"
       THEN /\ workers' = (workers \ {w}) \cup {w2}
            /\ UNCHANGED << upload_pc, upload_result, proc_error >>
       ELSE IF w.task = "chunk"
               THEN /\ workers' = (workers \ {w}) \cup {w2}
                    /\ proc_error' = IF proc_error = "none" THEN e ELSE proc_error
                    /\ UNCHANGED << upload_pc, upload_result >>
               ELSE /\ workers' = workers \ {w}
                    /\ upload_pc' = "ok"
                    /\ upload_result' = [kind |-> "Ok", value |-> w.block_offset, error |-> "none"]
                    /\ UNCHANGED proc_error
    /\ UNCHANGED << source_vars, session_vars, created, resumes, closed,
                    read_pos, read_failed, remote, rate_limited, commit_vars,
                    tracker_vars, hash_vars, list_vars >>

\* upload.rs:171-174  the worker reports its block to the tracker under the
\* lock and returns Ok to the dispatcher
MarkBlockUploaded(w) ==
    /\ w \in workers /\ w.pc = "mark"
    /\ completion' = mark_block_uploaded(w.block_offset, w.len)
    /\ workers' = workers \ {w}
    /\ UNCHANGED << source_vars, session_id, start_offset, bytes_transferred,
                    created, resumes, upload_pc, upload_result, dispatch_vars,
                    remote, issued, rate_limited, commit_vars, tracker_vars, hash_vars, list_vars >>

\* mutant: the dispatcher's error is logged and upload() goes on to return Ok
UploadFailsIgnored ==
    /\ upload_pc = "dispatch" /\ Running = {}
    /\ read_failed \/ proc_error # "none"
    /\ workers' = {}
    /\ upload_pc' = "ok"
    /\ upload_result' = [kind |-> "Ok", value |-> completion.complete_up_to, error |-> "none"]
    /\ UNCHANGED << source_vars, session_vars, created, resumes, dispatch_vars,
                    remote, issued, rate_limited, commit_vars, tracker_vars, hash_vars, list_vars >>

\* upload.rs:180-186  result.map_err: a read error becomes Error::HttpClient,
\* a worker's error is boxed and keeps its variant
map_err(kind, error) == IF kind = "Read" THEN "HttpClient" ELSE error

\* upload.rs:180-186  the dispatcher returned an error: upload() maps it and
\* returns it; the workers that returned Err are forgotten
UploadFails ==
    /\ upload_pc = "dispatch" /\ Running = {}
    /\ workers' = {}
    /\ \E kind \in {"Read", "Process"} :
          /\ kind = "Read" => read_failed
          /\ kind = "Process" => proc_error # "none"
          /\ upload_result' = [kind |-> kind, value |-> 0,
                                error |-> map_err(kind, proc_error)]
    /\ upload_pc' = "err"
    /\ UNCHANGED << source_vars, session_vars, created, resumes, dispatch_vars,
                    remote, issued, rate_limited, commit_vars, tracker_vars, hash_vars, list_vars >>

\* mutant: the test of `closed` is inverted
UploadAfterDispatchInverted ==
    /\ upload_pc = "dispatch" /\ workers = {}
    /\ ~read_failed /\ proc_error = "none" /\ read_pos = source_len
    /\ LET final_len == completion.complete_up_to IN
       IF closed
       THEN /\ workers' = {ClosingAppend(final_len)}
            /\ upload_pc' = "closing"
            /\ UNCHANGED upload_result
       ELSE /\ upload_pc' = "ok"
            /\ upload_result' = [kind |-> "Ok", value |-> final_len, error |-> "none"]
            /\ UNCHANGED workers
    /\ UNCHANGED << source_vars, session_vars, created, resumes, dispatch_vars,
                    remote, issued, rate_limited, commit_vars, tracker_vars, hash_vars, list_vars >>

\* upload.rs:188-207  the dispatcher returned Ok: final_len is read, and the
\* session is closed with an empty append unless a chunk closed it
UploadAfterDispatch ==
    /\ upload_pc = "dispatch" /\ workers = {}
    /\ ~read_failed /\ proc_error = "none" /\ read_pos = source_len
    /\ LET final_len == complete_up_to IN
       IF ~closed
       THEN /\ workers' = {ClosingAppend(final_len)}
            /\ upload_pc' = "closing"
            /\ UNCHANGED upload_result
       ELSE /\ upload_pc' = "ok"
            /\ upload_result' = [kind |-> "Ok", value |-> final_len, error |-> "none"]
            /\ UNCHANGED workers
    /\ UNCHANGED << source_vars, session_vars, created, resumes, dispatch_vars,
                    remote, issued, rate_limited, commit_vars, tracker_vars, hash_vars, list_vars >>

----------------------------------------------------------------------------
(* UploadSession::commit, upload.rs:211-239 *)

\* the state of commit(): the finish argument, the loop's error count, and
\* as history the calls made, the sleeps, the errors seen and what commit()
\* returned ("Ok" for the metadata, or the error)
\* history: commits counts the commit() calls made on this session object,
\* first holds the argument of the first of them
NoFinish ==
    [arg |-> [session_id |-> "", offset |-> 0], errors |-> 0, calls |-> 0,
     sleeps |-> << >>, failures |-> << >>, returned |-> "none",
     commits |-> 0, first |-> << >>]

\* mutant: the delay doubles with every error
CommitErrorDoubling(f, e) ==
    LET errors == f.errors + 1 IN
    IF errors = COMMIT_ATTEMPTS
    THEN [f EXCEPT !.errors = errors, !.failures = Append(f.failures, e),
                   !.returned = e]
    ELSE [f EXCEPT !.errors = errors, !.failures = Append(f.failures, e),
                   !.sleeps = Append(f.sleeps, Sleep("fixed", COMMIT_DELAY * errors))]

\* upload.rs:227-236  the Err(e) arm of commit's loop: after the third error
\* return it, otherwise sleep one second and loop
CommitError(f, e) ==
    LET errors == f.errors + 1 IN
    IF errors = COMMIT_ATTEMPTS
    THEN [f EXCEPT !.errors = errors, !.failures = Append(f.failures, e),
                   !.returned = e]
    ELSE [f EXCEPT !.errors = errors, !.failures = Append(f.failures, e),
                   !.sleeps = Append(f.sleeps, Sleep("fixed", COMMIT_DELAY))]

\* mutant: building the argument takes the counter (swap(0) for load)
CommitStartTakesCounter ==
    /\ upload_pc = "ok" /\ commit_pc \in {"idle", "ok", "err"}
    /\ finish.commits < MaxCommits
    /\ finish' = [NoFinish EXCEPT !.arg = commit_arg,
                                  !.commits = finish.commits + 1,
                                  !.first = IF finish.commits = 0 THEN << commit_arg >>
                                            ELSE finish.first]
    /\ commit_pc' = "call"
    /\ bytes_transferred' = 0
    /\ UNCHANGED << source_vars, session_id, start_offset, completion, created,
                    resumes, upload_pc, upload_result, dispatch_vars, workers,
                    remote, issued, rate_limited, tracker_vars, hash_vars, list_vars >>

\* upload.rs:211-217  commit(&self) after upload() returned Ok: the first
\* call, or another one on the same session after commit() returned
CommitStart ==
    /\ upload_pc = "ok" /\ commit_pc \in {"idle", "ok", "err"}
    /\ finish.commits < MaxCommits
    /\ finish' = [NoFinish EXCEPT !.arg = commit_arg,
                                  !.commits = finish.commits + 1,
                                  !.first = IF finish.commits = 0 THEN << commit_arg >>
                                            ELSE finish.first]
    /\ commit_pc' = "call"
    /\ UNCHANGED << source_vars, session_vars, created, resumes, upload_pc,
                    upload_result, dispatch_vars, workers, remote, issued,
                    rate_limited, tracker_vars, hash_vars, list_vars >>

\* upload.rs:219-226  the finish call succeeds: commit() returns the metadata
FinishOk ==
    /\ commit_pc = "call"
    /\ finish' = [finish EXCEPT !.calls = finish.calls + 1, !.returned = "Ok"]
    /\ commit_pc' = "ok"
    /\ UNCHANGED << source_vars, session_vars, created, resumes, upload_pc,
                    upload_result, dispatch_vars, workers, remote, issued,
                    rate_limited, tracker_vars, hash_vars, list_vars >>

\* upload.rs:227-236  the finish call fails with error e (any error,
\* Error::RateLimited included: the match has one Err arm)
FinishErr ==
    /\ commit_pc = "call"
    /\ \E e \in faults.finish_errors :
          LET f == CommitError([finish EXCEPT !.calls = finish.calls + 1], e) IN
          /\ finish' = f
          /\ commit_pc' = IF f.returned # "none" THEN "err" ELSE "call"
    /\ UNCHANGED << source_vars, session_vars, created, resumes, upload_pc,
                    upload_result, dispatch_vars, workers, remote, issued,
                    rate_limited, tracker_vars, hash_vars, list_vars >>

----------------------------------------------------------------------------
(* The caller resumes a failed upload, as examples/large-file-upload.rs does:
   get_resume() after the failure, the source positioned at start_offset,
   UploadSession::resume with the token. *)
Resume ==
    /\ upload_pc = "err" \/ commit_pc = "err"
    /\ resumes < MaxResumes
    /\ LET token == get_resume
           s == resume(token)
       IN /\ session_id' = s.session_id
          /\ start_offset' = s.start_offset
          /\ bytes_transferred' = s.bytes_transferred
          /\ completion' = s.completion
          /\ created' = token
          /\ seek' = token.start_offset
          /\ source_len' = orig_len - token.start_offset
    /\ resumes' = resumes + 1
    /\ upload_pc' = "idle"
    /\ upload_result' = [kind |-> "none", value |-> 0, error |-> "none"]
    /\ closed' = FALSE /\ read_pos' = 0 /\ proc_error' = "none"
    /\ read_failed' = FALSE /\ workers' = {}
    /\ commit_pc' = "idle"
    /\ finish' = NoFinish
    /\ issued' = NoCalls
    /\ UNCHANGED << opts, faults, orig_len, remote, rate_limited, tracker_vars, hash_vars, list_vars >>

----------------------------------------------------------------------------
(* list_directory and DirectoryIterator, list.rs. The entries of the remote
   folder are numbered 1..n in the order the remote lists them; a cursor is
   the number of entries listed before it. *)

\* files::ListFolderResult: the k entries after position pos of a folder of
\* n entries
ListFolderResult(n, pos, k) ==
    [entries |-> [i \in 1..k |-> pos + i], cursor |-> pos + k, has_more |-> pos + k < n]

\* Option<Item> of Iterator::next
NotReturned == [kind |-> "none", entry |-> 0, error |-> "none"]
SomeOk(entry) == [kind |-> "SomeOk", entry |-> entry, error |-> "none"]
SomeErr(e) == [kind |-> "SomeErr", entry |-> 0, error |-> e]
None == [kind |-> "None", entry |-> 0, error |-> "none"]

\* self.buffer.pop_front().map(Ok)
PopFrontMapOk(buffer) == IF buffer = << >> THEN None ELSE SomeOk(Head(buffer))

\* n: the entries of the remote folder; call: the remote call that
\* list_folder_internal is making ("none", "list_folder",
\* "list_folder_continue"), arg its cursor and errors its count of errors;
\* iterator: has list_directory returned Ok; buffer, cursor: the
\* DirectoryIterator's fields (cursor << >> is None, << c >> is Some(c));
\* history: has_more of the last result the remote gave, the entries that
\* next() has yielded, and what the last next() returned
NoListing ==
    [n |-> 0, call |-> "none", arg |-> 0, errors |-> 0, iterator |-> FALSE,
     buffer |-> << >>, cursor |-> << >>, has_more |-> FALSE, yielded |-> << >>,
     returned |-> NotReturned, failed |-> "none"]

\* list.rs:27-41  list_directory after list_folder_internal returned Ok(result)
DirectoryIteratorOf(l, result) ==
    [l EXCEPT !.call = "none", !.iterator = TRUE,
              !.cursor = IF result.has_more THEN << result.cursor >> ELSE << >>,
              !.buffer = result.entries,
              !.has_more = result.has_more]

\* list.rs:66-70  next() after list_folder_internal returned Ok(result):
\* extend the buffer, keep the cursor when has_more, return the front entry
NextAfterContinue(l, result) ==
    LET buffer == l.buffer \o result.entries IN
    [l EXCEPT !.call = "none",
              !.buffer = IF buffer = << >> THEN buffer ELSE Tail(buffer),
              !.cursor = IF result.has_more THEN << result.cursor >> ELSE l.cursor,
              !.has_more = result.has_more,
              !.yielded = IF buffer = << >> THEN l.yielded
                          ELSE Append(l.yielded, Head(buffer)),
              !.returned = PopFrontMapOk(buffer)]

\* list.rs:55-73  next() up to its return or its call of list_folder_internal
DirectoryIterator_next(l) ==
    IF l.buffer # << >>
    THEN [l EXCEPT !.buffer = Tail(l.buffer),
                   !.yielded = Append(l.yielded, Head(l.buffer)),
                   !.returned = SomeOk(Head(l.buffer))]
    ELSE IF l.cursor # << >>
         THEN [l EXCEPT !.cursor = << >>, !.call = "list_folder_continue",
                        !.arg = l.cursor[1], !.errors = 0,
                        !.returned = NotReturned]
         ELSE [l EXCEPT !.returned = None]

\* list.rs:114-123  the `error` arm of list_folder_internal's loop: the
\* third error is returned (by list_directory as its Err, by next() as
\* Some(Err(e))), an earlier one is retried at once
ListError(l, e) ==
    LET errors == l.errors + 1 IN
    IF errors = LIST_ATTEMPTS
    THEN IF l.call = "list_folder"
         THEN [l EXCEPT !.errors = errors, !.call = "none", !.failed = e]
         ELSE [l EXCEPT !.errors = errors, !.call = "none", !.returned = SomeErr(e)]
    ELSE [l EXCEPT !.errors = errors]

----------------------------------------------------------------------------
(* The upload specification: a fresh session, one source, one UploadOpts *)

Opts ==
    { [parallelism |-> p, blocks_per_request |-> b, retry_count |-> r,
       initial_backoff_time |-> t[1], max_backoff_time |-> t[2]] :
         p \in Parallelisms, b \in BlocksPerRequest, r \in RetryCounts,
         t \in BackoffTimes }

\* UploadOpts::default(); progress_handler: None is not part of the model
UploadOpts_default ==
    [parallelism |-> 20, blocks_per_request |-> 2, retry_count |-> 3,
     initial_backoff_time |-> 500, max_backoff_time |-> 2000]

\* source lengths: up to MaxChunks full chunks, then nothing, one byte, or
\* (when a chunk is several blocks) a whole number of blocks
SourceLengths(o) ==
    LET cs == BLOCK_SIZE * o.blocks_per_request IN
    { n * cs + r : n \in 0..MaxChunks, r \in {0, 1, cs - BLOCK_SIZE} }

InitSession(o, len, id) ==
    /\ opts = o
    /\ orig_len = len /\ seek = 0 /\ source_len = len
    /\ session_id = new(id).session_id
    /\ start_offset = new(id).start_offset
    /\ bytes_transferred = new(id).bytes_transferred
    /\ completion = new(id).completion
    /\ created = [start_offset |-> 0, session_id |-> id]
    /\ resumes = 0
    /\ upload_pc = "idle"
    /\ upload_result = [kind |-> "none", value |-> 0, error |-> "none"]
    /\ closed = FALSE /\ read_pos = 0 /\ proc_error = "none"
    /\ read_failed = FALSE /\ workers = {}
    /\ remote = RemoteEmpty
    /\ issued = NoCalls
    /\ rate_limited = 0
    /\ commit_pc = "idle"
    /\ finish = NoFinish

Init ==
    /\ \E o \in Opts : \E len \in SourceLengths(o) : \E id \in SessionIds :
          InitSession(o, len, id)
    /\ faults = FewFaults
    /\ pending = {} /\ delivered = << >>
    /\ NoHasher
    /\ listing = NoListing

Next ==
    \/ StartUpload
    \/ Dispatch
    \/ ReadError
    \/ \E w \in workers : AppendOk(w)
    \/ \E w \in workers : AppendRateLimited(w)
    \/ \E w \in workers : AppendErr(w)
    \/ \E w \in workers : MarkBlockUploaded(w)
    \/ UploadFails
    \/ UploadAfterDispatch
    \/ CommitStart
    \/ FinishOk
    \/ FinishErr
    \/ Resume

Spec == Init /\ [][Next]_vars

----------------------------------------------------------------------------
(* The retry specification: the upload of a source of at most one chunk, with
   one worker, for more values of retry_count and of the backoff times, and
   a remote that can answer with every kind of failure *)

RetryOpts ==
    { [parallelism |-> 1, blocks_per_request |-> 1, retry_count |-> r,
       initial_backoff_time |-> t[1], max_backoff_time |-> t[2]] :
         r \in RetryCountsAll, t \in BackoffTimesAll }

InitRetry ==
    /\ \E o \in RetryOpts : \E len \in {0, 1, BLOCK_SIZE} : \E id \in SessionIds :
          InitSession(o, len, id)
    /\ faults = AllFaults
    /\ pending = {} /\ delivered = << >>
    /\ NoHasher
    /\ listing = NoListing

SpecRetry == InitRetry /\ [][Next]_vars

(* The same with retry_count 0, which UploadOpts allows (a u32), beside
   retry_count 1 *)
InitRetryZero ==
    /\ \E r \in {0, 1} : \E len \in {0, 1, BLOCK_SIZE} : \E id \in SessionIds :
          InitSession([parallelism |-> 1, blocks_per_request |-> 1, retry_count |-> r,
                       initial_backoff_time |-> 500, max_backoff_time |-> 2000],
                      len, id)
    /\ faults = AllFaults
    /\ pending = {} /\ delivered = << >>
    /\ NoHasher
    /\ listing = NoListing

SpecRetryZero == InitRetryZero /\ [][Next]_vars

----------------------------------------------------------------------------
(* The tracker specification: the blocks of a partition of [0, N) are
   delivered to complete_block on a fresh tracker, in any order *)

\* the blocks (positive lengths) that the cut points cuts divide [0, n) into
Blocks(n, cuts) ==
    LET ends == cuts \cup {0, n} IN
    { [offset |-> a, len |-> (CHOOSE b \in ends : b > a /\ \A x \in ends : x > a => b <= x) - a] :
        a \in ends \ {n} }

InitTracker ==
    /\ \E n \in 0..MaxN : \E cuts \in SUBSET (1..(n - 1)) :
          /\ InitSession(CHOOSE o \in Opts : TRUE, n, CHOOSE id \in SessionIds : TRUE)
          /\ pending = Blocks(n, cuts)
    /\ faults = FewFaults
    /\ delivered = << >>
    /\ NoHasher
    /\ listing = NoListing

\* one call of complete_block
CompleteBlock(b) ==
    /\ b \in pending
    /\ completion' = complete_block(completion, b.offset, b.len)
    /\ pending' = pending \ {b}
    /\ delivered' = Append(delivered, b)
    /\ UNCHANGED << source_vars, session_id, start_offset, bytes_transferred,
                    created, resumes, upload_pc, upload_result, dispatch_vars,
                    workers, remote, issued, rate_limited, commit_vars, hash_vars, list_vars >>

NextTracker == \E b \in pending : CompleteBlock(b)

SpecTracker == InitTracker /\ [][NextTracker]_vars

----------------------------------------------------------------------------
(* The hasher specification: a new ContentHash is given the bytes of an
   input in consecutive slices of any of the lengths of UpdateLens, then
   finished *)

RECURSIVE Sum(_)
Sum(q) == IF q = << >> THEN 0 ELSE q[1] + Sum(Tail(q))

InitHash ==
    /\ InitSession(CHOOSE o \in Opts : TRUE, 0, CHOOSE id \in SessionIds : TRUE)
    /\ faults = FewFaults
    /\ pending = {} /\ delivered = << >>
    /\ NoHasher
    /\ listing = NoListing

\* hasher.update(bytes) with the next len bytes of the input
Update(len) ==
    /\ digest = << >> /\ Len(hash_input) < MaxUpdates
    /\ hasher # AssertFailed
    /\ hasher' = ContentHash_update(hasher, Slice(Sum(hash_input), len))
    /\ hash_input' = Append(hash_input, len)
    /\ UNCHANGED << source_vars, session_vars, created, resumes, upload_pc,
                    upload_result, dispatch_vars, workers, remote, issued,
                    rate_limited, commit_vars, tracker_vars, digest, stream, list_vars >>

\* hasher.finish()
Finish ==
    /\ digest = << >>
    /\ digest' = << ContentHash_finish(hasher) >>
    /\ UNCHANGED << source_vars, session_vars, created, resumes, upload_pc,
                    upload_result, dispatch_vars, workers, remote, issued,
                    rate_limited, commit_vars, tracker_vars, hasher, hash_input,
                    stream, list_vars >>

NextHash ==
    \/ \E len \in UpdateLens : Update(len)
    \/ Finish

SpecHash == InitHash /\ [][NextHash]_vars

----------------------------------------------------------------------------
(* The stream specification: ContentHash::new().read_stream(stream) on a
   stream of some length whose read() gives, at each call, some of the bytes
   that remain (at most the BLOCK_SIZE bytes of buf), Ok(0) at the end of
   the stream, or an error *)

InitStream ==
    /\ InitSession(CHOOSE o \in Opts : TRUE, 0, CHOOSE id \in SessionIds : TRUE)
    /\ faults = FewFaults
    /\ pending = {} /\ delivered = << >>
    /\ hasher = ContentHash_new /\ hash_input = << >> /\ digest = << >>
    /\ \E len \in StreamLens : stream = [NoStream EXCEPT !.len = len]
    /\ listing = NoListing

\* the lengths read() may give when `remaining` bytes remain
ReadLens(remaining) ==
    {n \in {1, BLOCK_SIZE \div 2, BLOCK_SIZE - 1, BLOCK_SIZE, remaining} :
        1 <= n /\ n <= Min(BLOCK_SIZE, remaining)}

\* content_hash.rs:73-82  one turn of the loop: stream.read gives res
ReadStreamTurn(res) ==
    LET r == read_stream_match(hasher, res) IN
    /\ stream.returned = "none"
    /\ hasher' = r.hasher
    /\ hash_input' = IF res.kind = "Ok" /\ res.n > 0 THEN Append(hash_input, res.n)
                     ELSE hash_input
    /\ stream' = [stream EXCEPT !.pos = stream.pos + res.n,
                                !.interrupts = IF res.kind = "Interrupted"
                                               THEN stream.interrupts + 1
                                               ELSE stream.interrupts,
                                !.returned = r.returned]
    /\ UNCHANGED << source_vars, session_vars, created, resumes, upload_pc,
                    upload_result, dispatch_vars, workers, remote, issued,
                    rate_limited, commit_vars, tracker_vars, digest, list_vars >>

\* read() gives the next n bytes of the stream
StreamReadOk(n) ==
    /\ Len(hash_input) < MaxReads
    /\ n \in ReadLens(stream.len - stream.pos)
    /\ ReadStreamTurn(ReadOk(Slice(stream.pos, n)))

\* read() gives Ok(0): the end of the stream
StreamReadEof ==
    /\ stream.pos = stream.len
    /\ ReadStreamTurn(ReadOk(Slice(stream.pos, 0)))

\* read() fails with an error of kind Interrupted
StreamReadInterrupted ==
    /\ stream.interrupts < MaxInterrupts
    /\ ReadStreamTurn(ReadErr("Interrupted"))

\* read() fails with an error of another kind
StreamReadErr(e) ==
    /\ e # "Interrupted"
    /\ ReadStreamTurn(ReadErr(e))

NextStream ==
    \/ \E n \in ReadLens(stream.len - stream.pos) : StreamReadOk(n)
    \/ StreamReadEof
    \/ StreamReadInterrupted
    \/ \E e \in IoErrorKinds : StreamReadErr(e)

SpecStream == InitStream /\ [][NextStream]_vars

----------------------------------------------------------------------------
(* The listing specification: list_directory on a remote folder of up to
   MaxEntries entries, then next() again and again on the iterator; the
   remote gives the entries in pages of any of PageSizes entries (a page
   may be empty while entries remain), and may fail or rate-limit any
   call *)

InitList ==
    /\ InitSession(CHOOSE o \in Opts : TRUE, 0, CHOOSE id \in SessionIds : TRUE)
    /\ faults = FewFaults
    /\ pending = {} /\ delivered = << >>
    /\ NoHasher
    /\ \E n \in 0..MaxEntries :
          listing = [NoListing EXCEPT !.n = n, !.call = "list_folder"]

\* list.rs:101  Ok(Ok(r)): the remote gives the next k entries
ListOk(k) ==
    /\ listing.call # "none"
    /\ k <= listing.n - listing.arg
    /\ LET result == ListFolderResult(listing.n, listing.arg, k) IN
       listing' = IF listing.call = "list_folder"
                  THEN DirectoryIteratorOf(listing, result)
                  ELSE NextAfterContinue(listing, result)
    /\ UNCHANGED << source_vars, session_vars, created, resumes, upload_pc,
                    upload_result, dispatch_vars, workers, remote, issued,
                    rate_limited, commit_vars, tracker_vars, hash_vars >>

\* list.rs:102-113  a rate-limited response: sleep and call again, errors
\* unchanged
ListRateLimited ==
    /\ listing.call # "none"
    /\ rate_limited < MaxRateLimited
    /\ rate_limited' = rate_limited + 1
    /\ UNCHANGED << source_vars, session_vars, created, resumes, upload_pc,
                    upload_result, dispatch_vars, workers, remote, issued,
                    commit_vars, tracker_vars, hash_vars, list_vars >>

\* list.rs:114-123  any other failure: Ok(Err(api error)) or Err(e)
ListErr(e) ==
    /\ listing.call # "none"
    /\ listing' = ListError(listing, e)
    /\ UNCHANGED << source_vars, session_vars, created, resumes, upload_pc,
                    upload_result, dispatch_vars, workers, remote, issued,
                    rate_limited, commit_vars, tracker_vars, hash_vars >>

\* the caller calls next() on the iterator list_directory returned
IteratorNext ==
    /\ listing.iterator /\ listing.call = "none"
    /\ listing' = DirectoryIterator_next(listing)
    /\ UNCHANGED << source_vars, session_vars, created, resumes, upload_pc,
                    upload_result, dispatch_vars, workers, remote, issued,
                    rate_limited, commit_vars, tracker_vars, hash_vars >>

NextList ==
    \/ \E k \in PageSizes : ListOk(k)
    \/ ListRateLimited
    \/ \E e \in Errors : ListErr(e)
    \/ IteratorNext

SpecList == InitList /\ [][NextList]_vars

TypeOK ==
    /\ upload_pc \in {"idle", "dispatch", "closing", "ok", "err"}
    /\ commit_pc \in {"idle", "call", "ok", "err"}
    /\ bytes_transferred \in Nat
    /\ completion.complete_up_to \in Nat
    /\ Cardinality(Running) <= opts.parallelism

----------------------------------------------------------------------------
(* Helpers of the properties *)

Last(q) == q[Len(q)]
SetOf(q) == {q[i] : i \in 1..Len(q)}

\* the blocks of S cover byte x
Covered(S, x) == \E b \in S : b.offset <= x /\ x < b.offset + b.len

\* the end of the gap-free prefix of [0, n) that the blocks of S cover
PrefixEnd(S, n) == CHOOSE x \in 0..n : ~Covered(S, x) /\ \A y \in 0..(x - 1) : Covered(S, y)

\* the chunks of the stream given to upload(), by their offset in the stream
ChunkStarts == {k * ChunkSize : k \in 0..MaxChunks} \cap 0..(source_len - 1)
ChunkLen(o) == Min(ChunkSize, source_len - o)

\* the append call that carries the chunk at stream offset o
ChunkCall(o) ==
    [session_id |-> created.session_id, offset |-> created.start_offset + o,
     close |-> (ChunkLen(o) # ChunkSize), len |-> ChunkLen(o), src |-> seek + o]

\* the remote has acknowledged the append of the chunk at stream offset o
AckedChunk(o) ==
    \E c \in remote.acked :
        /\ c.session_id = created.session_id /\ c.offset = created.start_offset + o
        /\ c.len = ChunkLen(o) /\ c.src = seek + o

----------------------------------------------------------------------------
(* C1 (Spec): in every reachable state of an upload, fresh or resumed, with
   workers acknowledged in any order, complete_up_to lies in
   [start_offset, start_offset + source_len] and never exceeds the remote
   offset of a chunk whose append the remote has not acknowledged: the range
   [start_offset, complete_up_to) holds acknowledged bytes only. *)
C1_PrefixIsAcknowledged ==
    /\ start_offset <= complete_up_to
    /\ complete_up_to <= start_offset + source_len
    /\ \A o \in ChunkStarts : ~AckedChunk(o) => complete_up_to <= start_offset + o

\* a later chunk is acknowledged and buffered while an earlier one is not
C1_Witness ==
    /\ DOMAIN completion.uploaded_blocks # {}
    /\ \E o \in ChunkStarts : ~AckedChunk(o) /\ complete_up_to = start_offset + o
    /\ \E o \in ChunkStarts : AckedChunk(o) /\ complete_up_to < start_offset + o

(* C2 (SpecTracker): when every block of a partition of [0, N) has been
   delivered to complete_block on a fresh tracker, in whatever order,
   complete_up_to = N and no block is left buffered. *)
C2_AllDeliveredReachesN ==
    pending = {} => /\ complete_up_to = orig_len
                    /\ DOMAIN completion.uploaded_blocks = {}

\* three or more blocks, the one at offset 0 delivered last
C2_Witness ==
    /\ pending = {} /\ Len(delivered) >= 3
    /\ Last(delivered).offset = 0
    /\ complete_up_to = orig_len /\ orig_len = MaxN

(* C3 (SpecTracker): across the calls of complete_block delivering the
   blocks of a partition of [0, N), complete_up_to never decreases from one
   call to the next and is at most N after every call. *)
C3_MonotoneAndBounded ==
    /\ [](complete_up_to <= orig_len)
    /\ [][complete_up_to' >= complete_up_to]_vars

\* a strict intermediate value, with a block buffered behind a gap
C3_Witness ==
    /\ Len(delivered) >= 2
    /\ 0 < complete_up_to /\ complete_up_to < orig_len
    /\ DOMAIN completion.uploaded_blocks # {}

(* C4 (SpecTracker): a call of complete_block with a block that starts
   beyond complete_up_to leaves complete_up_to unchanged and buffers the
   block; a call with the block that starts at complete_up_to moves
   complete_up_to, in that one call, to the end of the whole contiguous run
   of blocks delivered so far, and no block of that run stays buffered. *)
C4_BufferThenJump ==
    [][\A b \in pending : delivered' = Append(delivered, b) =>
          /\ b.offset > complete_up_to =>
                /\ complete_up_to' = complete_up_to
                /\ b.offset \in DOMAIN completion'.uploaded_blocks
                /\ completion'.uploaded_blocks[b.offset] = b.len
          /\ b.offset = complete_up_to =>
                /\ complete_up_to' = PrefixEnd(SetOf(delivered'), orig_len)
                /\ complete_up_to' >= b.offset + b.len
                /\ \A k \in DOMAIN completion'.uploaded_blocks : k > complete_up_to'
      ]_vars

\* chunk 2 before chunk 1: at 0 after the first call, at the end of chunk 2 after the second
C4_Witness ==
    /\ Len(delivered) = 2
    /\ delivered[2].offset = 0 /\ delivered[1].offset = delivered[2].len
    /\ complete_up_to = delivered[1].offset + delivered[1].len
    /\ pending # {}

----------------------------------------------------------------------------
(* Helpers of the properties about one upload() call *)

\* the append calls made by the current UploadSession object
MyDataCalls == {c \in issued.calls : c.len > 0}
MyEmptyCalls == {c \in issued.calls : c.len = 0}

\* number of chunks of the stream: ceil(source_len / ChunkSize)
NumChunks == (source_len + ChunkSize - 1) \div ChunkSize

\* no append call made so far had a response other than an acknowledgement
\* (a session object appends each chunk once)
EveryAppendSucceeded == issued.n_calls = Cardinality(issued.acked)

(* C5 (Spec): the cursor offset commit() passes to the finish call is the
   session's contiguous completed length complete_up_to, for fresh and for
   resumed sessions. *)
C5_CommitDeclaresCompleteUpTo ==
    commit_pc # "idle" => finish.arg.offset = complete_up_to

(* C6 (Spec): resumed upload equals uninterrupted upload: the data appends of
   a session built by resume(get_resume()) and fed the source from
   start_offset on put each chunk at the remote offset of its source
   position, starting at the token's offset, re-sending nothing below it and
   skipping nothing, and the commit that follows declares the whole original
   length. *)
C6_ResumedAppendsContinue ==
    /\ \A c \in MyDataCalls : c.offset = c.src /\ c.offset >= created.start_offset
    /\ \A w \in workers : w.task = "chunk" => w.arg.offset = w.src
    /\ upload_pc = "ok" =>
          MyDataCalls = {ChunkCall(o) : o \in ChunkStarts}
    /\ upload_pc = "ok" => created.start_offset + source_len = orig_len

C6_ResumedEqualsUninterrupted ==
    (resumes > 0 /\ commit_pc # "idle") =>
        /\ C6_ResumedAppendsContinue
        /\ finish.arg.offset = orig_len

(* C7 (Spec): at every moment get_resume() returns the id the session was
   created with and the tracker's complete_up_to; when upload() has failed
   and exactly the first k chunks were acknowledged, start_offset is the end
   offset of chunk k. *)
C7_ResumeTokenIsSnapshot ==
    /\ get_resume.session_id = created.session_id
    /\ get_resume.start_offset = completion.complete_up_to
    /\ upload_pc = "err" =>
          \A k \in 0..(MaxChunks + 1) :
              issued.acked = {ChunkCall(o) : o \in {x \in ChunkStarts : x < k * ChunkSize}}
                  => get_resume.start_offset
                        = created.start_offset + Min(k * ChunkSize, source_len)

\* a fresh upload failed after exactly its first two chunks were acknowledged
C7_Witness ==
    /\ upload_pc = "err" /\ resumes = 0 /\ NumChunks = 3
    /\ issued.acked = {ChunkCall(o) : o \in {0, ChunkSize}}
    /\ get_resume.start_offset = 2 * ChunkSize

(* C8 (Spec): a fresh session, a source whose length L is no multiple of the
   chunk size C, every append acknowledged at its first call: when upload()
   has returned Ok, exactly ceil(L/C) append calls were made, the k-th
   carrying bytes [k*C, min((k+1)*C, L)) at that offset, only the last one
   marked closing, none of them empty, and complete_up_to = L. *)
C8_ShortLastChunkCloses ==
    (/\ resumes = 0 /\ upload_pc = "ok"
     /\ source_len % ChunkSize # 0
     /\ EveryAppendSucceeded) =>
        /\ issued.n_calls = NumChunks
        /\ issued.calls =
              { [session_id |-> created.session_id, offset |-> k * ChunkSize,
                 close |-> (k = NumChunks - 1),
                 len |-> Min((k + 1) * ChunkSize, source_len) - k * ChunkSize,
                 src |-> k * ChunkSize] : k \in 0..(NumChunks - 1) }
        /\ \A c \in issued.calls : c.len > 0
        /\ complete_up_to = source_len
        /\ upload_result = [kind |-> "Ok", value |-> source_len, error |-> "none"]

\* two full chunks and a short one, uploaded by two workers
C8_Witness ==
    /\ resumes = 0 /\ upload_pc = "ok" /\ EveryAppendSucceeded
    /\ source_len % ChunkSize # 0 /\ NumChunks = 3
    /\ opts.parallelism = 2 /\ opts.blocks_per_request = 2
    /\ issued.n_calls = 3

(* C9 (Spec): when the length of the stream is an exact multiple of the
   chunk size, no chunk append is marked closing; an empty append is made
   only with close = true and only after the dispatcher has finished with
   every chunk append acknowledged; when upload() has returned Ok exactly one
   empty closing append was issued (one call, when no call failed). *)
C9_ExactMultipleClosesOnce ==
    source_len % ChunkSize = 0 =>
        /\ \A c \in MyDataCalls : ~c.close
        /\ \A w \in workers : w.task = "chunk" => ~w.arg.close
        /\ \A c \in MyEmptyCalls : c.close
        /\ (MyEmptyCalls # {} \/ \E w \in workers : w.task = "closing") =>
              /\ upload_pc \in {"closing", "ok"}
              /\ read_pos = source_len
              /\ \A o \in ChunkStarts : ChunkCall(o) \in issued.acked
              /\ \A w \in workers : w.task = "closing"
        /\ upload_pc = "ok" => Cardinality(MyEmptyCalls) = 1
        /\ (upload_pc = "ok" /\ EveryAppendSucceeded) =>
              issued.n_calls = NumChunks + 1

\* two full chunks, then the empty closing append acknowledged
C9_Witness ==
    /\ source_len = 2 * ChunkSize /\ upload_pc = "ok" /\ resumes = 0
    /\ EveryAppendSucceeded /\ issued.n_calls = 3
    /\ \E c \in issued.acked : c.len = 0 /\ c.close /\ c.offset = source_len

(* C10 (Spec): once a chunk's append has exhausted its retry budget, no
   chunk that was not dispatched is dispatched, upload() does not return Ok
   and returns the worker's error, no closing append is made and no commit
   or resume follows by itself, and when upload() has returned the tracker
   is at the end of the gap-free prefix of the acknowledged chunks; chunks
   in flight may still complete. *)
C10_StateAfterFailure ==
    proc_error # "none" =>
        /\ upload_pc \in {"dispatch", "err"}
        /\ upload_result.kind # "Ok"
        /\ (upload_pc = "err" /\ ~read_failed) => upload_result.kind = "Process"
        /\ MyEmptyCalls = {} /\ \A w \in workers : w.task = "chunk"
        /\ commit_pc = "idle"
        /\ upload_pc = "err" =>
              \E o \in ChunkStarts :
                  /\ ChunkCall(o) \notin issued.acked
                  /\ \A o2 \in ChunkStarts : o2 < o => ChunkCall(o2) \in issued.acked
                  /\ complete_up_to = created.start_offset + o

C10_FailedAppendStopsDispatch ==
    /\ []C10_StateAfterFailure
    /\ [][(proc_error # "none" /\ resumes' = resumes) =>
            /\ read_pos' = read_pos
            /\ {w.block_offset : w \in workers'} \subseteq {w.block_offset : w \in workers}
            /\ session_id' = session_id /\ start_offset' = start_offset
         ]_vars

\* upload() returned the worker's error with chunks left undispatched and a
\* later chunk acknowledged behind the failed one
C10_Witness ==
    /\ upload_pc = "err" /\ upload_result.kind = "Process"
    /\ read_pos < source_len
    /\ DOMAIN completion.uploaded_blocks # {}

----------------------------------------------------------------------------
(* Helpers of the properties about the retry loops *)

\* the sleeps of one kind in a log of sleeps, as their durations
SleepsOf(log, kind) ==
    LET sel == SelectSeq(log, LAMBDA x : x.kind = kind)
    IN [i \in 1..Len(sel) |-> sel[i].ms]

RECURSIVE Pow2(_)
Pow2(k) == IF k = 0 THEN 1 ELSE 2 * Pow2(k - 1)

\* the step is the response to an append call of worker w
Responded(w) ==
    /\ w \in workers /\ w.pc = "call"
    /\ issued'.n_calls = issued.n_calls + 1
    /\ \A v \in workers \ {w} : v \in workers'

\* ... and the response is an acknowledgement
RespondedOk(w) == Responded(w) /\ bytes_transferred' = bytes_transferred + w.len
                                /\ Cardinality(issued'.acked) > Cardinality(issued.acked)

(* C11 (SpecRetry): for retry_count M in 1..3, a call of
   upload_block_with_retry keeps calling while it has seen fewer than M
   errors other than rate limits, and returns Err exactly when it has seen M
   of them: M calls when no response was a rate limit, and the error
   surfaced is that of the last call; an acknowledgement at any call before
   that makes it return Ok at once, with no error surfaced. *)
C11_LoopState ==
    \A w \in workers :
        /\ w.errors = Len(w.failures)
        /\ w.calls = w.errors + Len(w.rate_limits) + (IF w.pc = "mark" THEN 1 ELSE 0)
        /\ w.pc \in {"call", "mark"} => w.errors < opts.retry_count
        /\ w.pc = "failed" =>
              /\ w.errors = opts.retry_count
              /\ w.rate_limits = << >> => w.calls = opts.retry_count
              /\ proc_error = Last(w.failures)
        /\ w.pc = "mark" => proc_error = "none"

C11_ExactlyMAttempts ==
    /\ []C11_LoopState
    /\ [][\A w \in workers :
            /\ RespondedOk(w) =>
                  IF w.task = "chunk"
                  THEN /\ \E v \in workers' : v.pc = "mark" /\ v.block_offset = w.block_offset
                       /\ proc_error' = proc_error
                  ELSE upload_pc' = "ok" /\ upload_result'.kind = "Ok"
            /\ (Responded(w) /\ ~RespondedOk(w) /\ w.errors + 1 < opts.retry_count) =>
                  \E v \in workers' : v.pc = "call" /\ v.block_offset = w.block_offset
                                        /\ v.calls = w.calls + 1
            /\ (Responded(w) /\ w.task = "closing" /\ workers' = {} /\ ~RespondedOk(w)) =>
                  w.errors + 1 = opts.retry_count
         ]_vars

\* three calls, three errors, no rate limit: the third error is surfaced
C11_Witness ==
    /\ opts.retry_count = 3 /\ rate_limited = 0
    /\ \E w \in workers :
          /\ w.pc = "failed" /\ w.calls = 3
          /\ w.failures = << "Api", "Api", "HttpClient" >>
    /\ proc_error = "HttpClient"

(* C12 (SpecRetry): a rate-limited response leaves the worker in the loop
   with errors and backoff unchanged, one more call made, and a sleep of
   exactly retry_after_seconds (none for 0) added to its sleeps; rate-limited
   responses never make the call return Err: a call that returned Err has
   seen retry_count other errors. *)
C12_RateLimitState ==
    \A w \in workers :
        /\ SleepsOf(w.sleeps, "rate_limited")
              = [i \in 1..Len(SelectSeq(w.rate_limits, LAMBDA x : x > 0)) |->
                    1000 * SelectSeq(w.rate_limits, LAMBDA x : x > 0)[i]]
        /\ w.pc = "failed" => Len(w.failures) = opts.retry_count
        /\ Len(w.failures) < opts.retry_count => w.pc # "failed"

C12_RateLimitNotCounted ==
    /\ []C12_RateLimitState
    /\ [][rate_limited' # rate_limited =>
            \E w \in workers : \E s \in faults.retry_after_seconds :
                /\ w.pc = "call"
                /\ workers' = (workers \ {w}) \cup
                      {[w EXCEPT !.calls = w.calls + 1,
                                 !.rate_limits = Append(w.rate_limits, s),
                                 !.sleeps = IF s = 0 THEN w.sleeps
                                            ELSE Append(w.sleeps, Sleep("rate_limited", 1000 * s))]}
                /\ proc_error' = proc_error /\ upload_pc' = upload_pc
         ]_vars

\* a rate limit between two errors, then the acknowledgement at the fourth call
C12_Witness ==
    /\ opts.retry_count = 3
    /\ \E w \in workers :
          /\ w.pc = "mark" /\ w.errors = 2 /\ w.calls = 4
          /\ w.rate_limits = << 2 >>
          /\ w.sleeps = << Sleep("backoff", 500), Sleep("rate_limited", 2000),
                           Sleep("backoff", 1000) >>
    /\ proc_error = "none"

(* C13 (SpecRetry): in the append retry loop the unjittered backoff of the
   k-th backoff sleep (k = 0, 1, ...) is min(initial_backoff_time * 2^k,
   max_backoff_time), and the loop's backoff is never above
   max_backoff_time. *)
C13_BackoffIsCappedDoubling ==
    \A w \in workers :
        /\ \A k \in 1..Len(SleepsOf(w.sleeps, "backoff")) :
              SleepsOf(w.sleeps, "backoff")[k]
                = Min(opts.initial_backoff_time * Pow2(k - 1), opts.max_backoff_time)
        /\ w.backoff <= opts.max_backoff_time

(* C14 (SpecRetry): an append answered with a permanent API error is not
   called again: the call of upload_block_with_retry has returned Err after
   that one call, whatever retry_count is. *)
C14_PermanentErrorNotRetried ==
    \A w \in workers :
        (\E i \in 1..Len(w.failures) : w.failures[i] = "Api") =>
            /\ w.pc = "failed"
            /\ w.errors = 1

(* C15 (SpecRetry): commit() makes at most 3 finish calls; it returns Ok at
   the first call that succeeds; after a failed call that is not the third
   it sleeps 1000 ms, the same every time; after the third failed call it
   returns that call's error, having slept twice only. *)
C15_CommitThreeCalls ==
    /\ finish.calls <= 3
    /\ finish.errors = Len(finish.failures)
    /\ commit_pc = "call" =>
          finish.calls = finish.errors /\ finish.errors < 3 /\ finish.returned = "none"
    /\ commit_pc = "ok" =>
          finish.returned = "Ok" /\ finish.calls = finish.errors + 1
    /\ commit_pc = "err" =>
          /\ finish.calls = 3 /\ finish.errors = 3
          /\ finish.returned = Last(finish.failures)
    /\ finish.sleeps = [i \in 1..Min(finish.errors, 2) |-> Sleep("fixed", 1000)]

\* three failed finish calls, two sleeps, the third error returned
C15_Witness ==
    /\ commit_pc = "err" /\ finish.calls = 3
    /\ finish.failures = << "HttpClient", "HttpClient", "Api" >>
    /\ finish.returned = "Api"
    /\ finish.sleeps = << Sleep("fixed", 1000), Sleep("fixed", 1000) >>

(* C16 (SpecRetry): in the append loop and in commit()'s loop a rate-limited
   response is not counted as an error of the call: the error count is the
   number of responses that were errors other than RateLimited, and no call
   returns Err(RateLimited). *)
C16_RateLimitNeverCounted ==
    /\ \A w \in workers :
          /\ w.errors = Len(w.failures)
          /\ \A i \in 1..Len(w.failures) : w.failures[i] # "RateLimited"
    /\ finish.errors
          = Len(SelectSeq(finish.failures, LAMBDA e : e # "RateLimited"))
    /\ finish.returned # "RateLimited"

(* C17 (Spec): after a read of the source has failed no chunk is read or
   dispatched, no closing append is made and upload() does not return Ok;
   the error upload() returns for the read failure is none of the errors it
   returns when an append fails. *)
C17_ReadErrorStops ==
    /\ [](read_failed =>
            /\ upload_pc \in {"dispatch", "err"}
            /\ upload_result.kind # "Ok"
            /\ MyEmptyCalls = {} /\ \A w \in workers : w.task = "chunk"
            /\ (upload_pc = "err" /\ proc_error = "none") => upload_result.kind = "Read")
    /\ [][(read_failed /\ resumes' = resumes) =>
            /\ read_failed' /\ read_pos' = read_pos
            /\ {w.block_offset : w \in workers'} \subseteq {w.block_offset : w \in workers}
         ]_vars

C17_ReadErrorIsDistinct ==
    (upload_pc = "err" /\ upload_result.kind = "Read") =>
        upload_result.error \notin faults.append_errors

(* C20 (Spec): resume(token) makes no remote call and gives a session whose
   tracker is at token.start_offset with nothing buffered; get_resume() on
   the session just resumed returns the token supplied. *)
C20_ResumeRestoresToken ==
    /\ [](upload_pc = "idle" =>
            /\ get_resume = created
            /\ DOMAIN completion.uploaded_blocks = {})
    /\ [][resumes' = resumes + 1 =>
            /\ created' = get_resume
            /\ remote' = remote /\ issued' = NoCalls
            /\ completion' = [complete_up_to |-> created'.start_offset,
                              uploaded_blocks |-> EmptyMap]
            /\ session_id' = created'.session_id
            /\ start_offset' = created'.start_offset
         ]_vars

\* a session resumed from the end of the first chunk, not yet used
C20_Witness ==
    /\ resumes = 1 /\ upload_pc = "idle"
    /\ created.start_offset = ChunkSize /\ get_resume = created
    /\ remote.acked # {} /\ issued = NoCalls

----------------------------------------------------------------------------
(* Helpers of the properties about the hasher *)

\* the whole input given so far, as one slice
WholeInput == Slice(0, Sum(hash_input))

\* the successive BLOCK_SIZE blocks of an input of n bytes, the last one
\* shorter when n is no multiple of BLOCK_SIZE; none for n = 0
BlocksOfInput(n) ==
    [k \in 1..((n + BLOCK_SIZE - 1) \div BLOCK_SIZE) |->
        Slice((k - 1) * BLOCK_SIZE, Min(BLOCK_SIZE, n - (k - 1) * BLOCK_SIZE))]

(* C18 (SpecHash): whatever the lengths of the consecutive slices an input
   was given to update() in (empty slices included), finish() returns the
   digest that a new hasher returns after one update() with the whole
   input. *)
C18_PartitionInvariance ==
    digest # << >> =>
        digest[1] = ContentHash_finish(ContentHash_update(ContentHash_new, WholeInput))

\* three slices, none ending at a block boundary, more than two blocks in all
C18_Witness ==
    /\ digest # << >> /\ Len(hash_input) = 3
    /\ \A i \in 1..3 : hash_input[i] > 0
    /\ \A i \in 1..2 : Sum(SubSeq(hash_input, 1, i)) % BLOCK_SIZE # 0
    /\ Sum(hash_input) > 2 * BLOCK_SIZE

(* C19 (SpecHash): finish() returns the outer hash of the hashes of the
   successive BLOCK_SIZE blocks of the input, in order, the last block
   shorter when the length is no multiple of BLOCK_SIZE and no empty block
   hashed: n block hashes for n whole blocks, none for an input of length 0,
   given by no update() or by update() of empty slices. *)
C19_HashOfBlockHashes ==
    digest # << >> =>
        /\ digest[1] = Sha256Finish(
              [k \in DOMAIN BlocksOfInput(Sum(hash_input)) |->
                  Sha256Finish(<< BlocksOfInput(Sum(hash_input))[k] >>)])
        /\ Sum(hash_input) = 0 => digest[1] = Sha256Finish(<< >>)
        /\ Len(digest[1].sha256) = (Sum(hash_input) + BLOCK_SIZE - 1) \div BLOCK_SIZE

\* exactly two blocks, given as half a block, a block and half a block
C19_Witness ==
    /\ digest # << >>
    /\ hash_input = << BLOCK_SIZE \div 2, BLOCK_SIZE, BLOCK_SIZE \div 2 >>
    /\ Len(digest[1].sha256) = 2

(* C21 (SpecRetry): with the retry options of UploadOpts::default()
   (retry_count 3, initial backoff 500 ms, max backoff 2 s), a call of
   upload_block_with_retry that fails on every attempt with no rate limit
   has slept backoffs of 500, 1000 and 2000 ms (3500 ms in all) before it
   returns Err, and retry_count retries followed the first call. *)
C21_DefaultBackoffSleeps ==
    \A w \in workers :
        ( /\ opts.retry_count = UploadOpts_default.retry_count
          /\ opts.initial_backoff_time = UploadOpts_default.initial_backoff_time
          /\ opts.max_backoff_time = UploadOpts_default.max_backoff_time
          /\ w.pc = "failed" /\ w.rate_limits = << >> ) =>
            /\ SleepsOf(w.sleeps, "backoff") = << 500, 1000, 2000 >>
            /\ Sum(SleepsOf(w.sleeps, "backoff")) = 3500
            /\ w.calls = 1 + opts.retry_count

(* C22 (Spec): no step of commit() (building the argument, a finish call
   that succeeds, one that fails, the return after the third failure) changes
   session_id, start_offset, complete_up_to, the buffered blocks or the byte
   counter; so every commit() on a session object sends the finish argument
   the first one sent, which is still what commit_arg gives. *)
C22_SameArgument ==
    commit_pc # "idle" =>
        /\ finish.commits >= 1
        /\ finish.arg = finish.first[1]
        /\ finish.arg = commit_arg

C22_CommitChangesNoSessionState ==
    /\ []C22_SameArgument
    /\ [][(resumes' = resumes /\ (commit_pc' # commit_pc \/ finish' # finish)) =>
            /\ session_id' = session_id
            /\ start_offset' = start_offset
            /\ completion' = completion
            /\ bytes_transferred' = bytes_transferred
         ]_vars

\* a second commit() that also failed, after a commit() on the same session
\* object had returned: three more finish calls with the first argument
C22_Witness ==
    /\ finish.commits = 2 /\ commit_pc = "err" /\ finish.calls = 3
    /\ completion.complete_up_to > 0 /\ bytes_transferred > 0
    /\ finish.arg = finish.first[1]

(* C23 (SpecHash): after every update(), whatever the lengths of the slices
   given so far, 0 <= partial < BLOCK_SIZE, partial is the number of input
   bytes after the last block boundary, the per-block context holds exactly
   those bytes, and every whole block before them has been folded, in order,
   into the overall context. *)
C23_PartialBlockInvariant ==
    LET total == Sum(hash_input) IN
    /\ 0 <= hasher.partial /\ hasher.partial < BLOCK_SIZE
    /\ hasher.partial = total % BLOCK_SIZE
    /\ hasher.block_ctx = IF hasher.partial = 0 THEN Sha256New
                          ELSE << Slice(total - hasher.partial, hasher.partial) >>
    /\ hasher.ctx = [k \in 1..(total \div BLOCK_SIZE) |->
                        Sha256Finish(<< Slice((k - 1) * BLOCK_SIZE, BLOCK_SIZE) >>)]

\* three updates, each crossing a block boundary and none ending on one:
\* four blocks folded and half a block pending
C23_Witness ==
    /\ hash_input = << BLOCK_SIZE - 1, BLOCK_SIZE + 1, 2 * BLOCK_SIZE + BLOCK_SIZE \div 2 >>
    /\ hasher.partial = BLOCK_SIZE \div 2
    /\ Len(hasher.ctx) = 4

(* C24 (SpecTracker): after every complete_block call, every key of the
   buffered map is strictly greater than complete_up_to: no buffered block
   starts at the cursor or below it. *)
C24_BufferedKeysAboveCursor ==
    \A k \in DOMAIN completion.uploaded_blocks : k > completion.complete_up_to

\* the cursor has advanced and two blocks beyond a gap are buffered
C24_Witness ==
    /\ completion.complete_up_to > 0
    /\ Cardinality(DOMAIN completion.uploaded_blocks) = 2
    /\ Len(delivered) = 3

\* the blocks that workers of this session object have reported to the
\* tracker: the acknowledged chunks whose worker has left mark_block_uploaded
MarkedBlocks ==
    { [offset |-> c.offset, len |-> c.len] :
        c \in {a \in issued.acked :
                 /\ a.len > 0
                 /\ ~\E w \in workers : w.pc = "mark" /\ w.arg.offset = a.offset} }

RECURSIVE SumOfLens(_)
SumOfLens(S) ==
    IF S = {} THEN 0
    ELSE LET b == CHOOSE x \in S : TRUE IN b.len + SumOfLens(S \ {b})

\* complete_block called for the blocks of S one after the other, in the
\* order of their offsets
RECURSIVE CompleteInOrder(_, _)
CompleteInOrder(t, S) ==
    IF S = {} THEN t
    ELSE LET b == CHOOSE x \in S : \A y \in S : x.offset <= y.offset
         IN CompleteInOrder(complete_block(t, b.offset, b.len), S \ {b})

(* C25 (Spec): whatever the interleaving of the workers, the byte counter is
   the sum of the lengths of the appends acknowledged so far (no addition is
   lost) and the tracker is in the state that the same completions, made one
   after the other on the tracker the session started with, leave it in;
   when upload() returns Ok the counter is the number of bytes of the
   source. *)
C25_CompletionsSerialised ==
    /\ bytes_transferred = SumOfLens(issued.acked)
    /\ completion = CompleteInOrder(resume_from(start_offset), MarkedBlocks)
    /\ upload_pc = "ok" => bytes_transferred = source_len

\* two workers at once: the second chunk was acknowledged and reported while
\* the worker of the first, acknowledged too, has yet to take the tracker lock
C25_Witness ==
    /\ opts.parallelism = 2
    /\ \E w \in workers : w.pc = "mark" /\ w.block_offset = 0
    /\ DOMAIN completion.uploaded_blocks # {}
    /\ bytes_transferred = 2 * ChunkSize

(* C26 (SpecStream): a read that fails with Interrupted is retried: the
   loop goes on with the hasher and the stream position unchanged;
   read_stream returns Ok only at the end of the stream; on an error of any
   other kind it returns that error with the hasher unchanged by the failed
   read; and at every point the hasher is in the state update() on the bytes
   the successful reads gave so far, in order and each once, leaves it in. *)
C26_HashedPrefix ==
    /\ stream.pos = Sum(hash_input)
    /\ hasher = ContentHash_update(ContentHash_new, Slice(0, stream.pos))
    /\ stream.returned = "Ok" => stream.pos = stream.len
    /\ stream.returned \in {"none", "Ok"} \cup (IoErrorKinds \ {"Interrupted"})

C26_ReadStreamErrors ==
    /\ []C26_HashedPrefix
    /\ [][/\ stream'.interrupts # stream.interrupts =>
                /\ hasher' = hasher /\ stream'.pos = stream.pos
                /\ stream'.returned = "none"
          /\ (stream.returned = "none" /\ stream'.returned # "none") =>
                hasher' = hasher /\ hash_input' = hash_input
         ]_vars

\* two reads that cross a block boundary, an Interrupted error that was
\* retried, then a connection reset before the end of the stream
C26_Witness ==
    /\ stream.returned = "ConnectionReset" /\ stream.interrupts = 1
    /\ hash_input = << BLOCK_SIZE - 1, BLOCK_SIZE \div 2 >>
    /\ stream.pos < stream.len

(* C27 (Spec): the empty closing append that upload() sends when no chunk
   was marked closing carries the cursor offset complete_up_to, the number
   of bytes the remote session holds, for a fresh session and for a session
   resumed from an offset above 0 alike. *)
C27_ClosingAppendOffset ==
    \A w \in workers :
        w.task = "closing" => w.arg.offset = completion.complete_up_to

\* the appends marked closing that this session object has made, and those
\* of them that the remote has acknowledged
MyClosingCalls == {c \in issued.calls : c.close /\ c.session_id = session_id}
MyClosingAcked == {c \in issued.acked : c.close /\ c.session_id = session_id}

(* C28 as stated (Spec): when upload() has returned Ok the remote has
   acknowledged an append marked closing that this call made. *)
C28_ClosedBeforeOk ==
    upload_pc = "ok" => MyClosingAcked # {}

(* C28 as amended (Spec): when upload() has returned Ok it has made an
   append marked closing: a last chunk marked closing, which the remote has
   acknowledged, or the empty closing append, which the remote has
   acknowledged or which failed; upload() goes from the closing append to Ok
   only on its acknowledgement or on the error that makes errors equal
   retry_count. *)
C28_ClosingAttempted ==
    upload_pc = "ok" =>
        /\ MyClosingCalls # {}
        /\ \A c \in MyClosingCalls : c.len > 0 => c \in issued.acked
        /\ MyClosingAcked = {} => \E c \in MyClosingCalls : c.len = 0

C28_OkAfterClosingAttempt ==
    /\ []C28_ClosingAttempted
    /\ [][(upload_pc = "closing" /\ upload_pc' = "ok") =>
            \E w \in workers :
                /\ w.task = "closing" /\ w.arg.close
                /\ \/ Call(w) \in issued'.acked
                   \/ w.errors + 1 = opts.retry_count /\ Call(w) \notin issued'.acked
         ]_vars

\* Ok after two full chunks whose empty closing append failed twice
C28_Witness ==
    /\ upload_pc = "ok" /\ opts.retry_count = 2
    /\ MyClosingAcked = {} /\ Cardinality(MyClosingCalls) = 1
    /\ Cardinality({c \in issued.acked : c.len > 0}) = 2
    /\ issued.n_calls = 4

(* C29 (SpecRetryZero): for every retry_count, 0 included, a call of
   upload_block_with_retry whose appends keep failing with errors other than
   rate limits returns Err. The loop leaves on an error only where
   `errors == retry_count`, tested after errors was incremented; so a call
   that still loops after an error has seen fewer than retry_count errors:
   each further error brings it one nearer to retry_count, where it
   returns. *)
C29_RetryLoopReturns ==
    \A w \in workers :
        (w.pc = "call" /\ w.errors > 0) => w.errors < opts.retry_count

(* C30 (Spec): in every reachable state of an upload the byte counter is at
   least the progress of the tracker, bytes_transferred >=
   complete_up_to - start_offset, and when upload() has returned Ok the two
   are equal. *)
C30_CounterCoversProgress ==
    /\ bytes_transferred >= completion.complete_up_to - start_offset
    /\ upload_pc = "ok" => bytes_transferred = completion.complete_up_to - start_offset

\* a resumed upload that returned Ok: counter and progress both one chunk,
\* counted from the resume offset
C30_Witness ==
    /\ upload_pc = "ok" /\ resumes = 1 /\ start_offset = ChunkSize
    /\ bytes_transferred = ChunkSize
    /\ completion.complete_up_to = 2 * ChunkSize

(* C31 (SpecList): next() returns None only when the listing is exhausted:
   the buffer is empty, no continuation cursor remains, and the last result
   the remote gave did not report more entries (has_more); this whatever the
   sizes of the pages. *)
C31_NoneOnlyWhenExhausted ==
    listing.returned.kind = "None" =>
        /\ listing.buffer = << >>
        /\ listing.cursor = << >>
        /\ ~listing.has_more

(* C32 (SpecHash): assert!(rem.is_empty()) in update() never fails: in
   every hasher state with 0 < partial < BLOCK_SIZE and for every slice
   given next, when the part of the slice that fits the block in progress
   does not complete it, nothing of the slice remains; so no update() ends
   in the panic. *)
C32_AssertNeverFails ==
    /\ hasher # AssertFailed
    /\ \A len \in UpdateLens :
          LET bytes == Slice(Sum(hash_input), len)
              first == FirstAndRem(hasher, bytes)[1]
              rem == FirstAndRem(hasher, bytes)[2]
          IN (0 < hasher.partial /\ hasher.partial < BLOCK_SIZE) =>
                /\ first.len + rem.len = len
                /\ hasher.partial + first.len <= BLOCK_SIZE
                /\ hasher.partial + first.len # BLOCK_SIZE => rem.len = 0
                /\ ContentHash_update(hasher, bytes) # AssertFailed

\* a block in progress was given a slice that does not complete it: the
\* branch of the assertion was taken
C32_Witness ==
    /\ hash_input = << 1, BLOCK_SIZE \div 2 >>
    /\ hasher.partial = 1 + BLOCK_SIZE \div 2
    /\ hasher.ctx = << >>

====
